---- MODULE Spec2Model ----
(***************************************************************************)
(* Model of the tampereen-energia-ha scraper service.                       *)
(*                                                                         *)
(*   src/main.py            fetch_and_publish, send_to_ha, __main__        *)
(*   src/import_history.py  fetch_historical_data, inject_to_home_assistant*)
(*                                                                         *)
(* Spec is the service with the history import script beside it.            *)
(* SpecPushing is Spec with a sink that also sends unsolicited messages;     *)
(* SpecScheduling is the main.py process with cycles that outlast the time   *)
(* to the next daily run; SpecHistory is the main.py process started on any  *)
(* well-formed history.json.                                                 *)
(*                                                                         *)
(* Time is counted in whole hours since the epoch, in UTC.  Energy is       *)
(* counted in units of 0.0001 kWh, so that round(x, 3) of main.py line 107  *)
(* is a rounding to a multiple of SumScale units.  A calendar date is the   *)
(* number of its day since the epoch.                                       *)
(***************************************************************************)
EXTENDS Integers, Sequences, FiniteSets, TLC

VARIABLES
    now,              \* wall clock, UTC hours since the epoch
    pc,               \* position of the main.py process
    cycles,           \* number of fetch_and_publish calls begun so far
    hpc,              \* position of the import_history.py script
    data_list,        \* the portal's reply of this cycle (main.py line 223)
    extracted_data,   \* main.py line 173 / 227: None or the day's record
    history_file,     \* /app/data/history.json: the dates it holds, in file order
    sum_file,         \* /app/data/ha_sync.json: None or its record
    msgs,             \* types of the messages sent on this cycle's websocket
    fetch_res,        \* reply to the statistics query (main.py line 68)
    running_sum,      \* main.py line 70 / 78 / 102
    last_pushed_date, \* main.py line 71 / 86
    seed_sum,         \* running_sum as it was when the batch was started
    stats,            \* main.py line 97: the batch built by this cycle
    outcome,          \* how the cycle in progress ended
    sink,             \* the statistics series held by Home Assistant
    hist_stats,       \* import_history.py line 152: the batch the script built
    prior_sum,        \* sum of the sink's latest point before the last import
    accepted,         \* the dates of the batches of main.py the sink accepted
    failed,           \* dates whose cycle ended without an import or a skip
    jobs,             \* the jobs registered with schedule (main.py line 268)
    inbox,            \* messages received and not yet read by ws.recv
    push_res,         \* what line 126 read as the reply to the import
    sink_pushes,      \* whether the sink sends messages nobody asked for
    auth_res,         \* type of the reply to the auth message (main.py line 51)
    hist_auth,        \* type of the auth reply of import_history.py line 185
    hist_msgs,        \* types of the messages the script sent on its websocket
    active,           \* number of calls of fetch_and_publish in progress
    overdue,          \* whether the daily run time came during this cycle
    files_before,     \* history.json and ha_sync.json as this cycle found them
    config            \* which settings of main.py lines 31-35 are provided

vars == <<now, pc, cycles, hpc, data_list, extracted_data, history_file,
          sum_file, msgs, fetch_res, running_sum, last_pushed_date, seed_sum,
          stats, outcome, sink, hist_stats, prior_sum, accepted, failed, jobs,
          inbox, push_res, sink_pushes, auth_res, hist_auth, hist_msgs,
          active, overdue, files_before, config>>

----------------------------------------------------------------------------
(* Bounds of the model *)

MaxCycles == 2
MaxHistDays == 2
MaxSpan == 20

(* Program and calendar constants *)

HoursPerDay == 24
TzOffset == 2
LookbackDays == 14
CutoffDays == 2
SumScale == 10
RunHour == 8
NoDate == -1
QueryId == 101
ImportId == 102
StartDay == 40

None == [none |-> TRUE]

StartHours == {22}
OutageDays == LookbackDays + CutoffDays + 1
ReadingCounts == {HoursPerDay - 1, HoursPerDay, HoursPerDay + 1}
ReadingValues == {4, 10}
HistValues == {243}

----------------------------------------------------------------------------
(* Pure helpers *)

Get(rec, key, default) == IF key \in DOMAIN rec THEN rec[key] ELSE default

Last(s) == s[Len(s)]

Range(s) == {s[i] : i \in 1..Len(s)}

RECURSIVE SortByStart(_)
SortByStart(S) ==
    IF S = {} THEN <<>>
    ELSE LET m == CHOOSE x \in S : \A y \in S : x.start <= y.start
         IN <<m>> \o SortByStart(S \ {m})

RECURSIVE SortDates(_)
SortDates(S) ==
    IF S = {} THEN <<>>
    ELSE LET m == CHOOSE x \in S : \A y \in S : x <= y
         IN <<m>> \o SortDates(S \ {m})

Reverse(s) == [i \in 1..Len(s) |-> s[Len(s) + 1 - i]]

(* datetime.now(timezone.utc) - timedelta(days=2), then its date *)
TargetDate(t) == (t - CutoffDays * HoursPerDay) \div HoursPerDay

(* datetime.now(timezone.utc) - timedelta(days=14) *)
LookbackStart(t) == t - LookbackDays * HoursPerDay

(* The date of an instant read without astimezone: its UTC date *)
LocalDateNoTz(start) == start \div HoursPerDay

(* fromtimestamp(ms / 1000, utc).astimezone(Europe/Helsinki).strftime("%Y-%m-%d") *)
LocalDate(start) == (start + TzOffset) \div HoursPerDay

(* strptime(date, "%Y-%m-%d").replace(tzinfo=Europe/Helsinki), as an instant *)
BaseTime(date) == date * HoursPerDay - TzOffset

(* round(x, 3): to the nearest multiple of SumScale, a tie to the even one *)
Round3(x) ==
    LET q == x \div SumScale
        r == x % SumScale
    IN IF 2 * r < SumScale THEN q * SumScale
       ELSE IF 2 * r > SumScale THEN (q + 1) * SumScale
       ELSE IF q % 2 = 0 THEN q * SumScale ELSE (q + 1) * SumScale

(* schedule.every().day.at(RUN_TIME): the next time the clock shows RunHour *)
NextRun(t) ==
    LET today == (t \div HoursPerDay) * HoursPerDay + RunHour
    IN IF today > t THEN today ELSE today + HoursPerDay

----------------------------------------------------------------------------
(* The statistics sink (Home Assistant recorder) *)

LastSum(s) == IF s = <<>> THEN 0 ELSE Last(s).sum

(* recorder/statistics_during_period: the points from start_time on, by start *)
SinkQuery(s, start_time) ==
    SelectSeq([i \in 1..Len(s) |-> [start |-> s[i].start, sum |-> s[i].sum]],
              LAMBDA p : p.start >= start_time)

(* recorder/import_statistics: one row per start, a resent start is replaced *)
SinkImport(s, batch) ==
    SortByStart({p \in Range(s) : \A i \in 1..Len(batch) : batch[i].start # p.start}
                \cup Range(batch))

----------------------------------------------------------------------------
(* send_to_ha: the pure parts *)

(* A seed taken from ha_sync.json when the file is there, from the query's
   reply otherwise *)
SumFromSyncFile(res) ==
    IF sum_file # None THEN sum_file.running_sum
    ELSE IF Get(res, "success", FALSE) /\ Get(res, "result", <<>>) # <<>>
         THEN Get(Last(res.result), "sum", 0)
         ELSE 0

(* main.py lines 70-78: the sum of the last point the query returned, else 0.0 *)
QueryRunningSum(res) ==
    IF Get(res, "success", FALSE) /\ Get(res, "result", <<>>) # <<>>
    THEN Get(Last(res.result), "sum", 0)
    ELSE 0

(* main.py lines 71-86: the local date of the last point's start, else "" *)
QueryLastPushedDate(res) ==
    IF Get(res, "success", FALSE) /\ Get(res, "result", <<>>) # <<>>
       /\ Get(Last(res.result), "start", 0) # 0
    THEN LocalDate(Last(res.result).start)
    ELSE NoDate

(* main.py line 92 *)
AlreadyInHA(current_data_date, last_date) == current_data_date = last_date

(* running_sum after the first i values were added to it *)
RECURSIVE RunAt(_, _, _)
RunAt(values, seed, i) ==
    IF i = 0 THEN seed ELSE RunAt(values, seed, i - 1) + values[i]

(* The batch with each sum taken from the seed and the hour's value alone *)
BuildStatsNoCarry(date, hourly, seed) ==
    [i \in 1..Len(hourly) |->
        [start |-> BaseTime(date) + (i - 1),
         state |-> hourly[i],
         sum   |-> Round3(seed + hourly[i])]]

(* main.py lines 97-108 *)
BuildStats(date, hourly, seed) ==
    [i \in 1..Len(hourly) |->
        [start |-> BaseTime(date) + (i - 1),
         state |-> hourly[i],
         sum   |-> Round3(RunAt(hourly, seed, i))]]

(* import_history.py lines 150-161 *)
BuildHistStats(raw_data) ==
    LET sorted == SortByStart(Range(raw_data))
        states == [i \in 1..Len(sorted) |-> sorted[i].state]
    IN [i \in 1..Len(sorted) |->
           [start |-> sorted[i].start,
            state |-> sorted[i].state,
            sum   |-> RunAt(states, 0, i)]]

----------------------------------------------------------------------------
(* The process *)

NoRes == [success |-> FALSE]

(* main.py lines 31-35: all settings present, HA_URL or HA_TOKEN missing, or
   TE_USERNAME or TE_PASSWORD missing *)
Configs == {"complete", "no_ha", "no_credentials"}

(* The state after the process is started, apart from the sink's behaviour and
   from what history.json holds *)
InitProcess ==
    /\ now \in {StartDay * HoursPerDay + h : h \in StartHours}
    /\ pc = "start"
    /\ cycles = 0
    /\ hpc = "ready"
    /\ data_list = <<>>
    /\ extracted_data = None
    /\ sum_file = None
    /\ msgs = <<>>
    /\ fetch_res = NoRes
    /\ running_sum = 0
    /\ last_pushed_date = NoDate
    /\ seed_sum = 0
    /\ stats = <<>>
    /\ outcome = "none"
    /\ sink = <<>>
    /\ hist_stats = <<>>
    /\ prior_sum = 0
    /\ accepted = <<>>
    /\ failed = {}
    /\ jobs = {}
    /\ inbox = <<>>
    /\ push_res = NoRes
    /\ auth_res = "none"
    /\ hist_auth = "none"
    /\ hist_msgs = <<>>
    /\ active = 0
    /\ overdue = FALSE
    /\ files_before = <<<<>>, None>>
    /\ config \in Configs

(* Home Assistant sends events only to a connection that subscribed to them,
   and send_to_ha subscribes to nothing *)
Init ==
    /\ InitProcess
    /\ history_file = <<>>
    /\ sink_pushes = FALSE

(* A sink that also sends messages nobody asked for *)
InitPushing ==
    /\ InitProcess
    /\ history_file = <<>>
    /\ sink_pushes = TRUE

(* history.json absent, or holding days at and around the first target day,
   one entry per day in ascending order *)
WellFormedHistories ==
    {<<>>, <<StartDay - CutoffDays>>, <<StartDay - 1>>, <<StartDay - 1, StartDay>>}

InitHistory ==
    /\ InitProcess
    /\ history_file \in WellFormedHistories
    /\ sink_pushes = FALSE

(* What a call of fetch_and_publish starts from *)
EnterCycle ==
    /\ cycles < MaxCycles
    /\ hpc # "done"
    /\ cycles' = cycles + 1
    /\ active' = active + 1
    /\ files_before' = <<history_file, sum_file>>
    /\ pc' = "scrape"
    /\ outcome' = "running"
    /\ UNCHANGED <<hpc, data_list, extracted_data, history_file, sum_file, msgs,
                   fetch_res, running_sum, last_pushed_date, seed_sum, stats,
                   sink, hist_stats, prior_sum, accepted, failed, inbox,
                   push_res, sink_pushes, auth_res, hist_auth, hist_msgs,
                   overdue, config>>

(* main.py line 261: the run at startup, before any job is registered *)
StartupRun ==
    /\ pc = "start"
    /\ EnterCycle
    /\ UNCHANGED <<now, jobs, config>>

(* A scheduler that runs the daily job from a thread of its own, whatever the
   main thread is doing *)
SchedulerThread == pc # "crashed"

(* main.py lines 268-274: the job is registered and the one thread of the
   process is in the loop, at run_pending *)
RunPendingReached == pc = "idle" /\ "daily" \in jobs

(* main.py lines 268-274: the daily job becomes due and run_pending runs it *)
DailyTrigger ==
    /\ RunPendingReached
    /\ NextRun(now) \div HoursPerDay <= StartDay + MaxSpan
    /\ now' = NextRun(now)
    /\ EnterCycle
    /\ UNCHANGED jobs

(* The process is stopped and started again, at once or after an outage;
   line 261 then runs a cycle *)
Restart ==
    /\ pc \in {"idle", "crashed"}
    /\ \E down \in {0, OutageDays * HoursPerDay} :
          /\ (now + down) \div HoursPerDay <= StartDay + MaxSpan
          /\ now' = now + down
    /\ jobs' = {}
    /\ EnterCycle

(* How a cycle that imported nothing and skipped nothing ends *)
EndFailed(how) ==
    /\ pc' = "done"
    /\ outcome' = how
    /\ failed' = failed \cup {IF extracted_data = None THEN TargetDate(now)
                                ELSE extracted_data.date}

(* fetch_and_publish returns: its locals and those of send_to_ha are gone.  The
   call of line 261 returns to lines 263-270, which register the daily job, the
   only job this program ever registers; a call made by run_pending returns to
   the loop of lines 272-274 *)
Return ==
    /\ pc = "done"
    /\ pc' = "idle"
    /\ data_list' = <<>>
    /\ extracted_data' = None
    /\ msgs' = <<>>
    /\ fetch_res' = NoRes
    /\ running_sum' = 0
    /\ last_pushed_date' = NoDate
    /\ seed_sum' = 0
    /\ stats' = <<>>
    /\ outcome' = "none"
    /\ prior_sum' = 0
    /\ jobs' = {"daily"}
    /\ inbox' = <<>>
    /\ push_res' = NoRes
    /\ auth_res' = "none"
    /\ active' = active - 1
    /\ overdue' = FALSE
    /\ files_before' = <<<<>>, None>>
    /\ UNCHANGED <<now, cycles, hpc, history_file, sum_file, sink, hist_stats,
                   accepted, failed, sink_pushes, hist_auth, hist_msgs, config>>

(* An exception leaves fetch_and_publish: nothing catches it at line 261 nor
   around run_pending at line 273, so the process ends with a traceback *)
ProcessDies ==
    /\ pc' = "crashed"
    /\ failed' = failed \cup {TargetDate(now)}
    /\ jobs' = {}
    /\ active' = 0
    /\ files_before' = <<<<>>, None>>
    /\ data_list' = <<>>
    /\ extracted_data' = None
    /\ outcome' = "none"
    /\ UNCHANGED <<now, cycles, hpc, history_file, sum_file, msgs, fetch_res,
                   running_sum, last_pushed_date, seed_sum, stats, sink,
                   hist_stats, prior_sum, accepted, inbox, push_res,
                   sink_pushes, auth_res, hist_auth, hist_msgs, overdue,
                   config>>

(* main.py lines 151-154: starting playwright, launching the browser or opening
   the page raises, outside the try of line 175 *)
LaunchCrash ==
    /\ pc = "scrape"
    /\ ProcessDies

(* main.py lines 253-254: history.json cannot be opened for writing, outside
   any try *)
HistoryWriteCrash ==
    /\ pc = "process"
    /\ \A i \in 1..Len(history_file) : history_file[i] # extracted_data.date
    /\ ProcessDies

(* main.py lines 175-237: no payload captured, a scraper error, a reply that is
   not ok or an empty list all leave extracted_data None, and line 240 returns *)
ScrapeNothing ==
    /\ pc = "scrape"
    /\ EndFailed("nodata")
    /\ UNCHANGED <<now, cycles, hpc, data_list, extracted_data, history_file,
                   sum_file, msgs, fetch_res, running_sum, last_pushed_date,
                   seed_sum, stats, sink, hist_stats, prior_sum, accepted, jobs,
                   inbox, push_res, sink_pushes, auth_res, hist_auth, hist_msgs,
                   active, overdue, files_before, config>>

(* The item lists the portal is taken to return for one day *)
DayShapes ==
    {sh \in [n : ReadingCounts, v : ReadingValues, provisional : BOOLEAN] :
        \/ sh.n = HoursPerDay /\ ~sh.provisional
        \/ sh.v = 10 /\ (sh.provisional => sh.n = HoursPerDay)}

(* main.py lines 205-233: the portal returns n items for the target day; without
   credentials page.fill of line 181 raises and line 235 logs it *)
ScrapeData ==
    /\ pc = "scrape"
    /\ config # "no_credentials"
    /\ \E sh \in DayShapes :
          /\ data_list' = [i \in 1..sh.n |->
                 [Consumption |-> sh.v,
                  Status |-> IF sh.provisional /\ i = sh.n
                             THEN "Provisional" ELSE "Measured"]]
          /\ extracted_data' = [date |-> TargetDate(now),
                                hourly_data |-> [i \in 1..sh.n |-> sh.v]]
    /\ pc' = "process"
    /\ UNCHANGED <<now, cycles, hpc, history_file, sum_file, msgs, fetch_res,
                   running_sum, last_pushed_date, seed_sum, stats, outcome,
                   sink, hist_stats, prior_sum, accepted, failed, jobs, inbox,
                   push_res, sink_pushes, auth_res, hist_auth, hist_msgs,
                   active, overdue, files_before, config>>

(* The day put at the end of the file, whatever the file holds *)
AppendOnly(all_history, date) == Append(all_history, date)

(* main.py lines 250-254: what is written for a day the file does not hold *)
AppendSorted(all_history, date) == SortDates(Range(all_history) \cup {date})

(* main.py lines 240-255: the local history file *)
SaveHistory ==
    /\ pc = "process"
    /\ history_file' =
          IF \E i \in 1..Len(history_file) : history_file[i] = extracted_data.date
          THEN history_file
          ELSE AppendSorted(history_file, extracted_data.date)
    /\ pc' = "connect"
    /\ UNCHANGED <<now, cycles, hpc, data_list, extracted_data, sum_file, msgs,
                   fetch_res, running_sum, last_pushed_date, seed_sum, stats,
                   outcome, sink, hist_stats, prior_sum, accepted, failed, jobs,
                   inbox, push_res, sink_pushes, auth_res, hist_auth, hist_msgs,
                   active, overdue, files_before, config>>

----------------------------------------------------------------------------
(* send_to_ha, step by step *)

(* main.py lines 39-41: HA_URL or HA_TOKEN is not set, an error is logged and
   send_to_ha returns *)
SkipPush ==
    /\ pc = "connect"
    /\ config = "no_ha"
    /\ EndFailed("noconfig")
    /\ UNCHANGED <<now, cycles, hpc, data_list, extracted_data, history_file,
                   sum_file, msgs, fetch_res, running_sum, last_pushed_date,
                   seed_sum, stats, sink, hist_stats, prior_sum, accepted, jobs,
                   inbox, push_res, sink_pushes, auth_res, hist_auth, hist_msgs,
                   active, overdue, files_before, config>>

(* An authentication check that lets every reply pass *)
AuthNotChecked(reply) == TRUE

(* main.py line 53 *)
AuthOk(reply) == reply = "auth_ok"

(* import_history.py line 187 *)
HistAuthOk(reply) == reply = "auth_ok"

(* main.py lines 47-55 and 144-145: connect and authenticate *)
Connect ==
    /\ pc = "connect"
    /\ config # "no_ha"
    /\ \E reply \in {"auth_ok", "auth_invalid", "exception"} :
          IF reply = "exception"
          THEN /\ EndFailed("wserror")
               /\ UNCHANGED <<msgs, auth_res>>
          ELSE /\ msgs' = Append(msgs, "auth")
               /\ auth_res' = reply
               /\ IF AuthOk(reply)
                  THEN /\ pc' = "query"
                       /\ UNCHANGED <<outcome, failed>>
                  ELSE EndFailed("autherror")
    /\ UNCHANGED <<now, cycles, hpc, data_list, extracted_data, history_file,
                   sum_file, fetch_res, running_sum, last_pushed_date, seed_sum,
                   stats, sink, hist_stats, prior_sum, accepted, jobs, inbox,
                   push_res, sink_pushes, hist_auth, hist_msgs, active, overdue,
                   files_before, config>>

(* The replies the sink can give to the query of main.py lines 60-67: the points
   of the window, an error, or the points with the last one lacking a field *)
QueryReplies(s, t) ==
    LET pts == SinkQuery(s, LookbackStart(t))
        n == Len(pts)
    IN {[id |-> QueryId, success |-> TRUE, result |-> pts],
        [id |-> QueryId, success |-> FALSE]}
       \cup (IF n = 0 THEN {}
             ELSE {[id |-> QueryId, success |-> TRUE,
                    result |-> [pts EXCEPT ![n] = [sum |-> pts[n].sum]]],
                   [id |-> QueryId, success |-> TRUE,
                    result |-> [pts EXCEPT ![n] = [start |-> pts[n].start]]]})

(* What the sink delivers after a request: its reply, alone or, when the sink
   sends messages of its own, behind such a message, which carries neither the
   id of the request nor a success field *)
PushMessage == [type |-> "event"]

Arrivals(reply) ==
    IF sink_pushes THEN {<<reply>>, <<PushMessage, reply>>} ELSE {<<reply>>}

(* main.py lines 57-89: query the sink, take the seed and the last date *)
Query ==
    /\ pc = "query"
    /\ msgs' = Append(msgs, "query")
    /\ \E reply \in QueryReplies(sink, now) : \E arrived \in Arrivals(reply) :
          LET res == Head(inbox \o arrived)
          IN /\ fetch_res' = res
             /\ inbox' = Tail(inbox \o arrived)
             /\ running_sum' = QueryRunningSum(res)
             /\ last_pushed_date' = QueryLastPushedDate(res)
    /\ pc' = "dedup"
    /\ UNCHANGED <<now, cycles, hpc, data_list, extracted_data, history_file,
                   sum_file, seed_sum, stats, outcome, sink, hist_stats,
                   prior_sum, accepted, failed, jobs, push_res, sink_pushes,
                   auth_res, hist_auth, hist_msgs, active, overdue,
                   files_before, config>>

(* main.py lines 68 and 144-145: the connection breaks while waiting for the reply *)
QueryException ==
    /\ pc = "query"
    /\ msgs' = Append(msgs, "query")
    /\ EndFailed("wserror")
    /\ UNCHANGED <<now, cycles, hpc, data_list, extracted_data, history_file,
                   sum_file, fetch_res, running_sum, last_pushed_date, seed_sum,
                   stats, sink, hist_stats, prior_sum, accepted, jobs, inbox,
                   push_res, sink_pushes, auth_res, hist_auth, hist_msgs,
                   active, overdue, files_before, config>>

(* main.py lines 91-94: the day is the sink's last day, nothing is sent *)
DedupSkip ==
    /\ pc = "dedup"
    /\ AlreadyInHA(extracted_data.date, last_pushed_date)
    /\ pc' = "done"
    /\ outcome' = "noop"
    /\ UNCHANGED <<now, cycles, hpc, data_list, extracted_data, history_file,
                   sum_file, msgs, fetch_res, running_sum, last_pushed_date,
                   seed_sum, stats, sink, hist_stats, prior_sum, accepted,
                   failed, jobs, inbox, push_res, sink_pushes, auth_res,
                   hist_auth, hist_msgs, active, overdue, files_before, config>>

(* main.py lines 96-108: build the batch from the seed *)
BuildBatch ==
    /\ pc = "dedup"
    /\ ~AlreadyInHA(extracted_data.date, last_pushed_date)
    /\ seed_sum' = running_sum
    /\ stats' = BuildStats(extracted_data.date, extracted_data.hourly_data, running_sum)
    /\ running_sum' = RunAt(extracted_data.hourly_data, running_sum,
                            Len(extracted_data.hourly_data))
    /\ pc' = "push"
    /\ UNCHANGED <<now, cycles, hpc, data_list, extracted_data, history_file,
                   sum_file, msgs, fetch_res, last_pushed_date, outcome, sink,
                   hist_stats, prior_sum, accepted, failed, jobs, inbox,
                   push_res, sink_pushes, auth_res, hist_auth, hist_msgs,
                   active, overdue, files_before, config>>

(* main.py lines 126-142: the next message received is taken as the reply to
   the import, and ha_sync.json is written when it says success *)
ReadPushReply(reply) ==
    \E arrived \in Arrivals(reply) :
        LET res == Head(inbox \o arrived)
        IN /\ push_res' = res
           /\ inbox' = Tail(inbox \o arrived)
           /\ sum_file' = IF Get(res, "success", FALSE)
                           THEN [running_sum |-> running_sum,
                                 last_pushed_date |-> extracted_data.date]
                           ELSE sum_file

(* main.py line 126: recv has no timeout, and the cycle waits for the sink
   until the clock is past the next daily run time *)
RunTimePasses ==
    /\ pc = "push"
    /\ ~overdue
    /\ NextRun(now) \div HoursPerDay <= StartDay + MaxSpan
    /\ now' = NextRun(now)
    /\ overdue' = TRUE
    /\ UNCHANGED <<pc, cycles, hpc, data_list, extracted_data, history_file,
                   sum_file, msgs, fetch_res, running_sum, last_pushed_date,
                   seed_sum, stats, outcome, sink, hist_stats, prior_sum,
                   accepted, failed, jobs, inbox, push_res, sink_pushes,
                   auth_res, hist_auth, hist_msgs, active, files_before,
                   config>>

(* main.py lines 110-140: the import is sent and the sink accepts it *)
PushAccepted ==
    /\ pc = "push"
    /\ msgs' = Append(msgs, "import")
    /\ sink' = SinkImport(sink, stats)
    /\ prior_sum' = LastSum(sink)
    /\ accepted' = Append(accepted, extracted_data.date)
    /\ ReadPushReply([id |-> ImportId, success |-> TRUE])
    /\ pc' = "done"
    /\ outcome' = "imported"
    /\ UNCHANGED <<now, cycles, hpc, data_list, extracted_data, history_file,
                   fetch_res, running_sum, last_pushed_date, seed_sum, stats,
                   hist_stats, failed, jobs, sink_pushes, auth_res, hist_auth,
                   hist_msgs, active, overdue, files_before, config>>

(* main.py lines 125-126 and 141-145: the sink rejects the import, or the
   connection breaks; nothing of the batch is stored *)
PushFailed ==
    /\ pc = "push"
    /\ msgs' = Append(msgs, "import")
    /\ \/ /\ EndFailed("importfailed")
          /\ ReadPushReply([id |-> ImportId, success |-> FALSE])
       \/ /\ EndFailed("wserror")
          /\ UNCHANGED <<sum_file, inbox, push_res>>
    /\ UNCHANGED <<now, cycles, hpc, data_list, extracted_data, history_file,
                   fetch_res, running_sum, last_pushed_date, seed_sum, stats,
                   sink, hist_stats, prior_sum, accepted, jobs, sink_pushes,
                   auth_res, hist_auth, hist_msgs, active, overdue,
                   files_before, config>>

----------------------------------------------------------------------------
(* import_history.py *)

(* import_history.py lines 127-131: the portal's daily items for days
   first..first+n-1, DateFrom taken as the day's 00:00 UTC *)
RawData(first, n, v) ==
    [i \in 1..n |-> [start |-> (first + i - 1) * HoursPerDay, state |-> v]]

(* import_history.py lines 142-206, run once, while main.py is between cycles *)
InjectHistory ==
    /\ pc \in {"start", "idle"}
    /\ hpc = "ready"
    /\ hpc' = "done"
    /\ \E n \in 1..MaxHistDays, back \in {1, CutoffDays + 1}, v \in HistValues,
          reversed \in BOOLEAN, reply \in {"success", "failure", "auth_invalid"} :
          LET lastday == now \div HoursPerDay - back
              raw == RawData(lastday - n + 1, n, v)
              raw_data == IF reversed THEN Reverse(raw) ELSE raw
              batch == BuildHistStats(raw_data)
              auth == IF reply = "auth_invalid" THEN "auth_invalid" ELSE "auth_ok"
          IN /\ hist_stats' = batch
             /\ hist_auth' = auth
             /\ hist_msgs' = IF HistAuthOk(auth) THEN <<"auth", "import">>
                                                ELSE <<"auth">>
             /\ IF reply = "success"
                THEN /\ sink' = SinkImport(sink, batch)
                     /\ prior_sum' = LastSum(sink)
                ELSE UNCHANGED <<sink, prior_sum>>
    /\ UNCHANGED <<now, pc, cycles, data_list, extracted_data, history_file,
                   sum_file, msgs, fetch_res, running_sum, last_pushed_date,
                   seed_sum, stats, outcome, accepted, failed, jobs, inbox,
                   push_res, sink_pushes, auth_res, active, overdue,
                   files_before, config>>

(* import_history.py line 212: the script ends *)
InjectExit ==
    /\ hpc = "done"
    /\ hpc' = "exited"
    /\ hist_stats' = <<>>
    /\ hist_auth' = "none"
    /\ hist_msgs' = <<>>
    /\ prior_sum' = 0
    /\ UNCHANGED <<now, pc, cycles, data_list, extracted_data, history_file,
                   sum_file, msgs, fetch_res, running_sum, last_pushed_date,
                   seed_sum, stats, outcome, sink, accepted, failed, jobs,
                   inbox, push_res, sink_pushes, auth_res, active, overdue,
                   files_before, config>>

----------------------------------------------------------------------------

Next ==
    \/ StartupRun
    \/ DailyTrigger
    \/ Restart
    \/ Return
    \/ LaunchCrash
    \/ HistoryWriteCrash
    \/ ScrapeNothing
    \/ ScrapeData
    \/ SaveHistory
    \/ SkipPush
    \/ Connect
    \/ Query
    \/ QueryException
    \/ DedupSkip
    \/ BuildBatch
    \/ PushAccepted
    \/ PushFailed
    \/ InjectHistory
    \/ InjectExit

Spec == Init /\ [][Next]_vars

SpecPushing == InitPushing /\ [][Next]_vars

(* The main.py process alone, with cycles that can outlast the time to the next
   daily run *)
NextScheduling ==
    \/ StartupRun
    \/ DailyTrigger
    \/ Restart
    \/ Return
    \/ LaunchCrash
    \/ HistoryWriteCrash
    \/ ScrapeNothing
    \/ ScrapeData
    \/ SaveHistory
    \/ SkipPush
    \/ Connect
    \/ Query
    \/ QueryException
    \/ DedupSkip
    \/ BuildBatch
    \/ RunTimePasses
    \/ PushAccepted
    \/ PushFailed

SpecScheduling == Init /\ [][NextScheduling]_vars

(* The main.py process alone, started on any well-formed history.json *)
NextMain ==
    \/ StartupRun
    \/ DailyTrigger
    \/ Restart
    \/ Return
    \/ LaunchCrash
    \/ HistoryWriteCrash
    \/ ScrapeNothing
    \/ ScrapeData
    \/ SaveHistory
    \/ SkipPush
    \/ Connect
    \/ Query
    \/ QueryException
    \/ DedupSkip
    \/ BuildBatch
    \/ PushAccepted
    \/ PushFailed

SpecHistory == InitHistory /\ [][NextMain]_vars

----------------------------------------------------------------------------
(* Vocabulary of the properties *)

ImportSent == \E i \in 1..Len(msgs) : msgs[i] = "import"

QuerySent == \E i \in 1..Len(msgs) : msgs[i] = "query"

(* The query was answered with points and the last of them has a start *)
LastPointReturned ==
    /\ QuerySent
    /\ "result" \in DOMAIN fetch_res
    /\ fetch_res.success
    /\ fetch_res.result # <<>>
    /\ "start" \in DOMAIN fetch_res.result[Len(fetch_res.result)]

(* The Europe/Helsinki calendar day an instant falls on *)
HelsinkiDay(start) == (start + 2) \div 24

LastPointDay == HelsinkiDay(fetch_res.result[Len(fetch_res.result)].start)

WasAccepted(date) == \E i \in 1..Len(accepted) : accepted[i] = date

(* state_1 + ... + state_i of a batch *)
RECURSIVE StateTotal(_, _)
StateTotal(batch, i) == IF i = 0 THEN 0 ELSE StateTotal(batch, i - 1) + batch[i].state

ExactRecurrence(batch, seed) ==
    \A i \in 1..Len(batch) :
        batch[i].sum = (IF i = 1 THEN seed ELSE batch[i - 1].sum) + batch[i].state

----------------------------------------------------------------------------
(* C1: across any sequence of cycles of main.py, the sink accepts the readings
   of one calendar day at most once. *)
C1_AtMostOncePerDay ==
    \A i, j \in 1..Len(accepted) : i # j => accepted[i] # accepted[j]

(* C2: when the last point the sink returned starts on local date D and the
   candidate date of send_to_ha is D, no batch is built and no import_statistics
   message is sent. *)
C2_SameDayNoOp ==
    (LastPointReturned /\ extracted_data # None /\ LastPointDay = extracted_data.date)
        => (pc # "push" /\ ~ImportSent /\ stats = <<>>)

(* C2, its case: a second run for a day the sink accepted before ends as a NoOp
   on the sink's last point of that day. *)
C2_Witness ==
    /\ pc = "done"
    /\ outcome = "noop"
    /\ LastPointReturned
    /\ LastPointDay = extracted_data.date
    /\ WasAccepted(extracted_data.date)

(* C3: every point of an accepted import, of main.py or of import_history.py,
   has a sum that is at least the sum of the latest point the sink held before
   that import. *)
C3_SumNeverDecreases ==
    /\ (pc = "done" /\ outcome = "imported")
          => \A i \in 1..Len(stats) : stats[i].sum >= prior_sum
    /\ hpc = "done" => \A i \in 1..Len(hist_stats) : hist_stats[i].sum >= prior_sum

(* C4: a cycle whose query failed, or was answered with a last point lacking
   its start or its sum, builds no batch and sends no import_statistics. *)
C4_NoImportAfterBadQuery ==
    (QuerySent /\ (pc = "push" \/ ImportSent))
        => /\ Get(fetch_res, "success", FALSE)
           /\ fetch_res.result # <<>>
                 => DOMAIN fetch_res.result[Len(fetch_res.result)] = {"start", "sum"}

(* C5: the seed of every batch of send_to_ha is the sum of the sink's most
   recent point, however old, and is 0 only when the series has no point. *)
C5_SeedIsLastSum ==
    pc = "push" =>
        /\ seed_sum = (IF sink = <<>> THEN 0 ELSE sink[Len(sink)].sum)
        /\ seed_sum = 0 => (sink = <<>> \/ sink[Len(sink)].sum = 0)

C7_NeverOutOfOrder ==
    (LastPointReturned /\ extracted_data # None /\ extracted_data.date < LastPointDay)
        => (pc # "push" /\ ~ImportSent)

(* C8: a day is sent to the sink only if the source returned exactly 24
   readings for it and every one is Measured. *)
C8_OnlyCompleteDays ==
    (pc = "push" \/ ImportSent)
        => /\ Len(data_list) = 24
           /\ \A i \in 1..Len(data_list) : data_list[i].Status = "Measured"

(* C9: every entry sent to the sink is dated on or before today(UTC) - 2 days
   as of the cycle that sends it. *)
C9_NothingAfterCutoff ==
    ImportSent =>
        \A i \in 1..Len(stats) : HelsinkiDay(stats[i].start) <= (now \div 24) - 2

(* C10: a day whose cycle failed or found no data is not passed over: when a
   later cycle imports the day after it, the failed day has been imported. *)
C10_NoSkippedDay ==
    (pc = "done" /\ outcome = "imported")
        => \A d \in failed : d + 1 = extracted_data.date => WasAccepted(d)

(* C11: when a cycle failed or found no data, a retry is pending once the cycle
   has returned: a retry job is registered next to the daily one and its
   deadline is held in the persisted state. *)
C11_RetryPending ==
    (pc = "idle" /\ TargetDate(now) \in failed /\ ~WasAccepted(TargetDate(now)))
        => /\ "retry" \in jobs
           /\ "retry_at" \in DOMAIN sum_file

(* C12: a message that send_to_ha takes as the reply to its query carries the
   id of the query, and one it takes as the reply to its import carries the id
   of the import. *)
C12_RepliesCorrelated ==
    /\ fetch_res # NoRes => Get(fetch_res, "id", 0) = QueryId
    /\ push_res # NoRes => Get(push_res, "id", 0) = ImportId

(* C13: on a connection whose reply to the auth message was anything but
   auth_ok, send_to_ha sends neither the statistics query nor the import, and
   inject_to_home_assistant sends no import. *)
C13_NothingSentAfterFailedAuth ==
    /\ auth_res \notin {"none", "auth_ok"} => (~QuerySent /\ ~ImportSent)
    /\ hist_auth \notin {"none", "auth_ok"}
          => \A i \in 1..Len(hist_msgs) : hist_msgs[i] # "import"

(* C13, its case: send_to_ha has returned after an auth_invalid reply, with the
   auth message the only one it sent. *)
C13_Witness ==
    /\ pc = "done"
    /\ outcome = "autherror"
    /\ auth_res = "auth_invalid"
    /\ msgs = <<"auth">>

(* C14: no failure of a step of a cycle ends the process: it is never stopped
   by an exception of fetch_and_publish, so the daily trigger stays armed. *)
C14_LoopSurvives == pc # "crashed"

(* C15: at most one call of fetch_and_publish is in progress at any time, also
   when the daily run time comes while a cycle is running. *)
C15_OneCycleAtATime ==
    /\ active <= 1
    /\ active = 1 <=> pc \in {"scrape", "process", "connect", "query", "dedup",
                               "push", "done"}

(* C15, its case: the daily run time came while a cycle was waiting for the
   sink, and the cycle has finished as the only one in progress. *)
C15_Witness ==
    /\ pc = "done"
    /\ overdue
    /\ now % HoursPerDay = RunHour
    /\ active = 1

(* C16: a cycle whose authentication, query or import at the sink failed has
   changed neither history.json nor ha_sync.json. *)
C16_FailedPushLeavesFiles ==
    (pc = "done" /\ outcome \in {"autherror", "wserror", "importfailed"})
        => <<history_file, sum_file>> = files_before

(* C17: what send_to_ha decides and sends is fixed by the candidate data and the
   sink's reply to the query alone, whatever ha_sync.json and history.json
   hold: the seed is the sum of the last point of the reply (0 without one), the
   day is skipped exactly when it is the local date of that point's start, and
   the batch is built from the candidate's values and that seed. *)
C17_SinkIsAuthoritative ==
    LET pts == IF Get(fetch_res, "success", FALSE)
               THEN Get(fetch_res, "result", <<>>) ELSE <<>>
        seed == IF pts = <<>> THEN 0 ELSE Get(pts[Len(pts)], "sum", 0)
        lastday == IF pts = <<>> \/ Get(pts[Len(pts)], "start", 0) = 0
                   THEN NoDate
                   ELSE HelsinkiDay(pts[Len(pts)].start)
        hourly == extracted_data.hourly_data
    IN /\ pc = "dedup" => (running_sum = seed /\ last_pushed_date = lastday)
       /\ (pc = "done" /\ outcome = "noop") => extracted_data.date = lastday
       /\ (pc = "push" \/ ImportSent)
             => /\ extracted_data.date # lastday
                /\ seed_sum = seed
                /\ Len(stats) = Len(hourly)
                /\ \A i \in 1..Len(stats) :
                      /\ stats[i].state = hourly[i]
                      /\ stats[i].start = extracted_data.date * 24 - 2 + (i - 1)
                      /\ stats[i].sum = Round3(seed + StateTotal(stats, i))

(* C17, its case: a batch is built from the sink's reply while ha_sync.json
   names the candidate day as already pushed and holds another sum, and
   history.json holds the day. *)
C17_Witness ==
    /\ pc = "push"
    /\ sum_file # None
    /\ sum_file.last_pushed_date = extracted_data.date
    /\ sum_file.running_sum # seed_sum
    /\ \E i \in 1..Len(history_file) : history_file[i] = extracted_data.date

(* C18: with TE_USERNAME, TE_PASSWORD, HA_URL or HA_TOKEN missing the process
   begins no cycle and never reaches the scheduler loop. *)
C18_MissingConfigIsFatal ==
    config # "complete" => (cycles = 0 /\ pc = "start")

(* C19: started on an absent or well-formed history.json, the file always holds
   its days in ascending order, each once, and a cycle whose day the file
   already held has left it as it was. *)
C19_HistoryWellFormed ==
    /\ \A i \in 1..Len(history_file) - 1 : history_file[i] < history_file[i + 1]
    /\ (pc \in {"connect", "query", "dedup", "push", "done"}
         /\ extracted_data # None
         /\ \E i \in 1..Len(files_before[1]) :
                files_before[1][i] = extracted_data.date)
          => history_file = files_before[1]

(* C19, its case: a cycle has saved a day earlier than the days the file held,
   and the day stands in front of them. *)
C19_Witness ==
    /\ pc = "connect"
    /\ Len(history_file) >= 2
    /\ history_file[1] = extracted_data.date
    /\ history_file # files_before[1]

====
